---- MODULE Spec2Model ----
(***************************************************************************)
(* flexible-eth: the chain archiver (sync/mod.rs) and the confirmation-    *)
(* rule evaluator (confrule/mod.rs) over one key-value store.              *)
(*                                                                         *)
(* The store is the record db, one field per key family:                   *)
(*   slot_synched         slot_{s}_synched          (set of slots)         *)
(*   epoch_state_synched  epoch_{e}_state_synched   (set of epochs)        *)
(*   ebb                  ebb_{e}_source_slot       (epoch -> slot)        *)
(*   block_slot           block_{s}, s a slot       (slot -> root)         *)
(*   block_root           block_{r}, r a root       (root -> Block)        *)
(*   chain                chain_{r}                 (root -> Seq(root))    *)
(*   fin                  state_{r}_finality_checkpoints                   *)
(*   committees           state_{r}_committees                             *)
(*   sync_progress        sync_progress             ({} or {"v"} -> slot)  *)
(* Slots per epoch are scaled from 32 to 2 and usize from 64 to UsizeBits  *)
(* bits; roots and state roots are small integers.                         *)
(***************************************************************************)
EXTENDS Integers, Sequences, FiniteSets, TLC

\* ---------------------------------------------------------------- bounds
MaxEpoch == 2
UsizeBits == 6
MaxEmpty == 2            \* empty slots on the endpoint's chain

\* ------------------------------------------------- utils (crate::utils)
SLOTS_PER_EPOCH == 2
GAP_LATEST_SLOT_NOW_SLOT_CANONICAL_CHAIN_STABILITY == 2

slot_to_epoch(s) == s \div SLOTS_PER_EPOCH
epoch_to_slot(e) == e * SLOTS_PER_EPOCH
is_epoch_boundary_slot(s) == s % SLOTS_PER_EPOCH = 0
most_recent_epoch_boundary_slot_for_slot(s) == epoch_to_slot(slot_to_epoch(s))

is_prefix_of(a, b) ==
    /\ Len(a) <= Len(b)
    /\ \A i \in 1..Len(a) : a[i] = b[i]

USIZE_MOD == 2 ^ UsizeBits
\* usize subtraction as the release build computes it (wrapping)
usize_sub(a, b) == (a - b + USIZE_MOD) % USIZE_MOD

MaxSlot == epoch_to_slot(MaxEpoch)
Slots == 0..MaxSlot
Epochs == 0..MaxEpoch

\* ------------------------------------------------------ data (crate::data)
ZERO_ROOT == 0
HEADER_GENESIS_ROOT == 1
NoSlot == 0 - 1          \* Option<usize>::None
NoRoot == 0 - 1          \* Option<Root>::None

\* ------------------------------------------------------------- variables
VARIABLES
    endpoint,            \* the consensus API's answers (fixed per behaviour)
    db,                  \* the key-value store
    pc,                  \* archiver: position in sync::main
    slot,                \* archiver: loop variable
    min_slot,            \* archiver: coerced lower bound
    max_slot,            \* archiver: exclusive upper bound (after += 1)
    last_nonempty_slot,  \* archiver: Option<usize>
    blk_root,            \* archiver: root fetched for the slot
    rerun,               \* this run follows a successful run over the same range
    wrote,               \* a re-run (rerun) has written to the store
    requested,           \* a re-run (rerun) has issued an API request
    mode,                \* history of archiver runs on this store
    arg_max_slot,        \* archiver: the parameter max_slot (line 20)
    now_slot,            \* archiver: the slot of the wall clock (line 39)
    tmp_state_root,      \* archiver: the state root by slot (lines 144, 184)
    tokens,              \* archiver: limiter tokens acquired and not yet used
    inflight,            \* archiver: requests sent and not yet answered
    hi_min,              \* greatest coerced min_slot of the runs so far
    cpc,                 \* evaluator: position in confrule::main
    c_arg_max_slot,      \* evaluator: the parameter max_slot (line 11)
    c_now_slot,          \* evaluator: the slot of the wall clock (line 23)
    c_max_slot,          \* evaluator: max_slot after clamping and coercion
    epoch,               \* evaluator: loop variable
    ridx,                \* evaluator: index of the rule the inner loop is at
    conf_rule_states,    \* evaluator: Vec<ConfirmationRuleState>
    ledger               \* evaluator: the LEDGER records printed so far

cvars == <<cpc, c_arg_max_slot, c_now_slot, c_max_slot, epoch, ridx,
          conf_rule_states, ledger>>
args == <<arg_max_slot, now_slot>>
limiter == <<tokens, inflight>>

\* ------------------------------------------------ the endpoint's answers
RootOf(s) == s + 1
SlotOfRoot(r) == r - 1
StateRootOf(s) == s + 1
BadStateRoot == 0

PrevNonempty(ep, s) ==
    LET c == {t \in Slots : t < s /\ t \in ep.nonempty}
    IN  IF c = {} THEN NoSlot ELSE CHOOSE t \in c : \A u \in c : u <= t

\* root of the epoch boundary block of epoch e on the endpoint's chain
EbbRootOf(ep, e) ==
    IF epoch_to_slot(e) \in ep.nonempty THEN RootOf(epoch_to_slot(e))
    ELSE IF PrevNonempty(ep, epoch_to_slot(e)) = NoSlot THEN HEADER_GENESIS_ROOT
    ELSE RootOf(PrevNonempty(ep, epoch_to_slot(e)))

\* the committees of a state in epoch e: one committee of two validators
\* per slot of the epoch
CommitteesOf(e) ==
    [i \in 1..SLOTS_PER_EPOCH |->
        [slot |-> epoch_to_slot(e) + i - 1, index |-> 0,
         validators |-> <<2 * (i - 1), 2 * (i - 1) + 1>>]]

\* the block at slot s carries one attestation, by the committee of slot s-1
AttestationsOf(ep, s) ==
    IF s = 0 THEN << >>
    ELSE << [slot_committee |-> s - 1, committee_index |-> 0,
             aggregation_bitfield |-> ep.bits[s],
             target |-> [epoch |-> slot_to_epoch(s - 1),
                         root |-> EbbRootOf(ep, slot_to_epoch(s - 1))]] >>

BlockOf(ep, s) ==
    [slot |-> s, proposer_index |-> 0,
     parent_root |-> IF s = 0 THEN ZERO_ROOT
                     ELSE IF PrevNonempty(ep, s) = NoSlot THEN HEADER_GENESIS_ROOT
                     ELSE RootOf(PrevNonempty(ep, s)),
     state_root |-> StateRootOf(s),
     attestations |-> AttestationsOf(ep, s)]

get_blockroot_by_slot(ep, s) == IF s \in ep.nonempty THEN RootOf(s) ELSE NoRoot
get_block_by_blockroot(ep, r) == BlockOf(ep, SlotOfRoot(r))
get_state_finality_checkpoints_by_slot(ep, s) ==
    [previous_justified |-> [epoch |-> 0, root |-> ZERO_ROOT],
     current_justified |-> [epoch |-> 0, root |-> ZERO_ROOT],
     finalized |-> [epoch |-> 0, root |-> ep.fin[slot_to_epoch(s)]]]
get_state_committees_by_slot(ep, s) == CommitteesOf(slot_to_epoch(s))
\* the state root the endpoint may report for slot s
StateRootAnswers(s) == {StateRootOf(s), BadStateRoot}

\* ----------------------------------------------------------------- store
EmptyFn == [x \in {} |-> 0]
Put(f, k, v) == [x \in DOMAIN f \cup {k} |-> IF x = k THEN v ELSE f[x]]

EmptyDb ==
    [slot_synched |-> {}, epoch_state_synched |-> {}, ebb |-> EmptyFn,
     block_slot |-> EmptyFn, block_root |-> EmptyFn, chain |-> EmptyFn,
     fin |-> EmptyFn, committees |-> EmptyFn, sync_progress |-> EmptyFn]

\* ------------------------------------------------------------- archiver
Running == pc \notin {"idle", "done", "failed", "interrupted"}

ConfRunning == cpc \in {"epoch", "rules"}

\* no evaluator process: nothing of an earlier evaluation is left
ConfReset ==
    /\ cpc' = "idle"
    /\ c_arg_max_slot' = 0
    /\ c_now_slot' = 0
    /\ c_max_slot' = 0
    /\ epoch' = 0
    /\ ridx' = 0
    /\ conf_rule_states' = << >>
    /\ ledger' = << >>

\* the process ends (Ok, Err, panic or cancellation): its locals are gone
Exit(status) ==
    /\ pc' = status
    /\ slot' = 0
    /\ last_nonempty_slot' = NoSlot
    /\ blk_root' = NoRoot
    /\ arg_max_slot' = 0
    /\ now_slot' = 0
    /\ tmp_state_root' = NoRoot
    /\ tokens' = 0
    /\ inflight' = 0

\* sync::main lines 37-57: the upper bound after clamping and coercion
ClampMax(max, now) ==
    LET limit == usize_sub(now, GAP_LATEST_SLOT_NOW_SLOT_CANONICAL_CHAIN_STABILITY)
        m1 == IF max > limit THEN limit ELSE max
    IN  most_recent_epoch_boundary_slot_for_slot(m1)

NextMode(lo, hi) ==
    IF mode = "fresh" THEN "first"
    ELSE IF mode = "interrupted" /\ lo = min_slot /\ hi = max_slot THEN "resumed"
    ELSE "other"

\* StartRun adding SLOTS_PER_EPOCH where line 69 adds 1
StartRun_PlusEpoch(min, max, now) ==
    /\ ~Running
    /\ ~ConfRunning
    /\ \/ /\ now < GAP_LATEST_SLOT_NOW_SLOT_CANONICAL_CHAIN_STABILITY
          /\ pc' = "failed"
          /\ mode' = "other"
          /\ rerun' = FALSE
          /\ slot' = 0
          /\ arg_max_slot' = 0
          /\ now_slot' = 0
          /\ UNCHANGED <<min_slot, max_slot, hi_min>>
       \/ LET lo == most_recent_epoch_boundary_slot_for_slot(min)
              hi == ClampMax(max, now) + SLOTS_PER_EPOCH
          IN  /\ pc' = "loop"
              /\ arg_max_slot' = max
              /\ now_slot' = now
              /\ slot' = lo
              /\ min_slot' = lo
              /\ max_slot' = hi
              /\ rerun' = (pc = "done" /\ lo = min_slot /\ hi = max_slot)
              /\ mode' = NextMode(lo, hi)
              /\ hi_min' = IF lo > hi_min THEN lo ELSE hi_min
    /\ last_nonempty_slot' = NoSlot
    /\ blk_root' = NoRoot
    /\ wrote' = FALSE
    /\ requested' = FALSE
    /\ tmp_state_root' = NoRoot
    /\ tokens' = 0
    /\ inflight' = 0
    /\ ConfReset
    /\ UNCHANGED <<db, endpoint>>

\* lines 16-72: open the store, clamp and coerce the range, enter the loop.
\* now_slot - GAP underflows when now_slot < GAP: the debug build panics,
\* the release build wraps.
StartRun(min, max, now) ==
    /\ ~Running
    /\ ~ConfRunning
    /\ \/ /\ now < GAP_LATEST_SLOT_NOW_SLOT_CANONICAL_CHAIN_STABILITY
          /\ pc' = "failed"
          /\ mode' = "other"
          /\ rerun' = FALSE
          /\ slot' = 0
          /\ arg_max_slot' = 0
          /\ now_slot' = 0
          /\ UNCHANGED <<min_slot, max_slot, hi_min>>
       \/ LET lo == most_recent_epoch_boundary_slot_for_slot(min)
              hi == ClampMax(max, now) + 1
          IN  /\ pc' = "loop"
              /\ arg_max_slot' = max
              /\ now_slot' = now
              /\ slot' = lo
              /\ min_slot' = lo
              /\ max_slot' = hi
              /\ rerun' = (pc = "done" /\ lo = min_slot /\ hi = max_slot)
              /\ mode' = NextMode(lo, hi)
              /\ hi_min' = IF lo > hi_min THEN lo ELSE hi_min
    /\ last_nonempty_slot' = NoSlot
    /\ blk_root' = NoRoot
    /\ wrote' = FALSE
    /\ requested' = FALSE
    /\ tmp_state_root' = NoRoot
    /\ tokens' = 0
    /\ inflight' = 0
    /\ ConfReset
    /\ UNCHANGED <<db, endpoint>>

\* line 74: the range is exhausted, Ok(())
LoopExit ==
    /\ pc = "loop"
    /\ slot >= max_slot
    /\ Exit("done")
    /\ UNCHANGED <<cvars, hi_min, db, endpoint, min_slot, max_slot, wrote, requested, rerun, mode>>

\* lines 75-77: the slot carries its marker
SkipSynched ==
    /\ pc = "loop"
    /\ slot < max_slot
    /\ slot \in db.slot_synched
    /\ slot' = slot + 1
    /\ UNCHANGED <<args, tmp_state_root, limiter, cvars, db, endpoint, pc, min_slot, max_slot, last_nonempty_slot,
                   blk_root, wrote, requested, rerun, mode, hi_min>>

\* lines 83-93: the slot has a canonical block
FetchBlockRootSome ==
    /\ pc = "loop"
    /\ inflight = 1
    /\ slot < max_slot
    /\ slot \notin db.slot_synched
    /\ get_blockroot_by_slot(endpoint, slot) # NoRoot
    /\ blk_root' = get_blockroot_by_slot(endpoint, slot)
    /\ db' = [db EXCEPT !.block_slot = Put(@, slot, blk_root')]
    /\ last_nonempty_slot' = slot
    /\ pc' = IF is_epoch_boundary_slot(slot) THEN "ebb_self" ELSE "block"
    /\ wrote' = rerun
    /\ requested' = rerun
    /\ inflight' = 0
    /\ UNCHANGED <<args, tmp_state_root, tokens, cvars, hi_min, endpoint, slot, min_slot, max_slot, rerun, mode>>

\* line 91
PutEbbSelf ==
    /\ pc = "ebb_self"
    /\ db' = [db EXCEPT !.ebb = Put(@, slot_to_epoch(slot), slot)]
    /\ pc' = "block"
    /\ UNCHANGED <<args, tmp_state_root, limiter, cvars, endpoint, slot, min_slot, max_slot, last_nonempty_slot,
                   blk_root, wrote, requested, rerun, mode, hi_min>>

\* lines 83-84, 95-96: the slot is empty
FetchBlockRootNone ==
    /\ pc = "loop"
    /\ inflight = 1
    /\ slot < max_slot
    /\ slot \notin db.slot_synched
    /\ get_blockroot_by_slot(endpoint, slot) = NoRoot
    /\ pc' = IF is_epoch_boundary_slot(slot) /\ last_nonempty_slot # NoSlot
             THEN "ebb_prev" ELSE "mark_empty"
    /\ requested' = rerun
    /\ inflight' = 0
    /\ UNCHANGED <<args, tmp_state_root, tokens, cvars, hi_min, db, endpoint, slot, min_slot, max_slot, last_nonempty_slot,
                   blk_root, wrote, rerun, mode>>

\* line 98
PutEbbPrev ==
    /\ pc = "ebb_prev"
    /\ db' = [db EXCEPT !.ebb = Put(@, slot_to_epoch(slot), last_nonempty_slot)]
    /\ pc' = "mark_empty"
    /\ wrote' = rerun
    /\ UNCHANGED <<args, tmp_state_root, limiter, cvars, hi_min, endpoint, slot, min_slot, max_slot, last_nonempty_slot,
                   blk_root, requested, rerun, mode>>

\* MarkEmpty without the put of lines 100-103
MarkEmpty_NoMarker ==
    /\ pc = "mark_empty"
    /\ slot' = slot + 1
    /\ pc' = "loop"
    /\ UNCHANGED <<args, tmp_state_root, limiter, cvars, db, hi_min, endpoint, min_slot, max_slot, last_nonempty_slot,
                   blk_root, wrote, requested, rerun, mode>>

\* lines 100-104
MarkEmpty ==
    /\ pc = "mark_empty"
    /\ db' = [db EXCEPT !.slot_synched = @ \cup {slot}]
    /\ slot' = slot + 1
    /\ pc' = "loop"
    /\ wrote' = rerun
    /\ UNCHANGED <<args, tmp_state_root, limiter, cvars, hi_min, endpoint, min_slot, max_slot, last_nonempty_slot, blk_root,
                   requested, rerun, mode>>

\* FetchBlock with the chain construction of lines 118-137 enabled
FetchBlock_WithChain ==
    /\ pc = "block"
    /\ inflight = 1
    /\ LET blk == get_block_by_blockroot(endpoint, blk_root)
           chain == IF blk.parent_root = ZERO_ROOT THEN <<blk_root>>
                    ELSE IF blk.parent_root \in DOMAIN db.chain
                         THEN Append(db.chain[blk.parent_root], blk_root)
                         ELSE <<blk_root>>
       IN  db' = [db EXCEPT !.block_root = Put(@, blk_root, blk),
                            !.chain = Put(@, blk_root, chain)]
    /\ pc' = IF slot_to_epoch(slot) \in db.epoch_state_synched
             THEN "mark" ELSE "stateroot1"
    /\ wrote' = rerun
    /\ requested' = rerun
    /\ inflight' = 0
    /\ UNCHANGED <<args, tmp_state_root, tokens, cvars, hi_min, endpoint, slot, min_slot,
                   max_slot, last_nonempty_slot, blk_root, rerun, mode>>

\* lines 109-114 and the marker read of line 140
FetchBlock ==
    /\ pc = "block"
    /\ inflight = 1
    /\ LET blk == get_block_by_blockroot(endpoint, blk_root)
       IN  db' = [db EXCEPT !.block_root = Put(@, blk_root, blk)]
    /\ pc' = IF slot_to_epoch(slot) \in db.epoch_state_synched
             THEN "mark" ELSE "stateroot1"
    /\ wrote' = rerun
    /\ requested' = rerun
    /\ inflight' = 0
    /\ UNCHANGED <<args, tmp_state_root, tokens, cvars, hi_min, endpoint, slot, min_slot, max_slot, last_nonempty_slot,
                   blk_root, rerun, mode>>

\* lines 143-150: the state root by slot must be the block's
CheckStateRoot1(tmp) ==
    /\ pc = "stateroot1"
    /\ inflight = 1
    /\ IF tmp = get_block_by_blockroot(endpoint, blk_root).state_root
       THEN /\ pc' = "fin"
            /\ tmp_state_root' = tmp
            /\ inflight' = 0
            /\ UNCHANGED <<args, tokens, slot, last_nonempty_slot, blk_root>>
       ELSE Exit("failed")
    /\ requested' = rerun
    /\ UNCHANGED <<cvars, hi_min, db, endpoint, min_slot, max_slot, wrote, rerun, mode>>

\* lines 152-164
FetchFinalityCheckpoints ==
    /\ pc = "fin"
    /\ inflight = 1
    /\ LET blk == get_block_by_blockroot(endpoint, blk_root)
       IN  db' = [db EXCEPT !.fin = Put(@, blk.state_root,
                     get_state_finality_checkpoints_by_slot(endpoint, slot))]
    /\ pc' = "committees"
    /\ wrote' = rerun
    /\ requested' = rerun
    /\ inflight' = 0
    /\ UNCHANGED <<args, tmp_state_root, tokens, cvars, hi_min, endpoint, slot, min_slot, max_slot, last_nonempty_slot,
                   blk_root, rerun, mode>>

\* FetchCommittees without the put of lines 176-179
FetchCommittees_NoPut ==
    /\ pc = "committees"
    /\ inflight = 1
    /\ pc' = "stateroot2"
    /\ wrote' = rerun
    /\ requested' = rerun
    /\ inflight' = 0
    /\ UNCHANGED <<args, tmp_state_root, tokens, cvars, hi_min, db, endpoint, slot, min_slot,
                   max_slot, last_nonempty_slot, blk_root, rerun, mode>>

\* lines 173-179
FetchCommittees ==
    /\ pc = "committees"
    /\ inflight = 1
    /\ LET blk == get_block_by_blockroot(endpoint, blk_root)
       IN  db' = [db EXCEPT !.committees = Put(@, blk.state_root,
                     get_state_committees_by_slot(endpoint, slot))]
    /\ pc' = "stateroot2"
    /\ wrote' = rerun
    /\ requested' = rerun
    /\ inflight' = 0
    /\ UNCHANGED <<args, tmp_state_root, tokens, cvars, hi_min, endpoint, slot, min_slot, max_slot, last_nonempty_slot,
                   blk_root, rerun, mode>>

\* CheckStateRoot2 without the assertion of line 190
CheckStateRoot2_NoAssert(tmp) ==
    /\ pc = "stateroot2"
    /\ inflight = 1
    /\ db' = [db EXCEPT !.epoch_state_synched = @ \cup {slot_to_epoch(slot)}]
    /\ pc' = "mark"
    /\ tmp_state_root' = tmp
    /\ inflight' = 0
    /\ UNCHANGED <<args, tokens, slot, last_nonempty_slot, blk_root>>
    /\ UNCHANGED <<cvars, hi_min, endpoint, min_slot, max_slot, wrote, requested, rerun, mode>>

\* lines 183-191
CheckStateRoot2(tmp) ==
    /\ pc = "stateroot2"
    /\ inflight = 1
    /\ IF tmp = get_block_by_blockroot(endpoint, blk_root).state_root
       THEN /\ db' = [db EXCEPT !.epoch_state_synched = @ \cup {slot_to_epoch(slot)}]
            /\ pc' = "mark"
            /\ tmp_state_root' = tmp
            /\ inflight' = 0
            /\ UNCHANGED <<args, tokens, slot, last_nonempty_slot, blk_root>>
       ELSE /\ Exit("failed")
            /\ UNCHANGED db
    /\ UNCHANGED <<cvars, hi_min, endpoint, min_slot, max_slot, wrote, requested, rerun, mode>>

\* MarkSlot without the put of lines 195-198
MarkSlot_NoMarker ==
    /\ pc = "mark"
    /\ slot' = slot + 1
    /\ pc' = "loop"
    /\ tmp_state_root' = NoRoot
    /\ UNCHANGED <<args, limiter, cvars, db, hi_min, endpoint, min_slot, max_slot, last_nonempty_slot,
                   blk_root, wrote, requested, rerun, mode>>

\* lines 195-198
MarkSlot ==
    /\ pc = "mark"
    /\ db' = [db EXCEPT !.slot_synched = @ \cup {slot}]
    /\ slot' = slot + 1
    /\ pc' = "loop"
    /\ tmp_state_root' = NoRoot
    /\ UNCHANGED <<args, limiter, cvars, hi_min, endpoint, min_slot, max_slot, last_nonempty_slot, blk_root,
                   wrote, requested, rerun, mode>>

\* the archiver is at a request: lines 83, 109, 143, 152, 173, 183
AtRequest ==
    \/ pc = "loop" /\ slot < max_slot /\ slot \notin db.slot_synched
    \/ pc \in {"block", "stateroot1", "fin", "committees", "stateroot2"}

\* lines 10-14: try_wait until the limiter grants a token
ratelimiter_wait ==
    /\ AtRequest
    /\ tokens = 0
    /\ inflight = 0
    /\ tokens' = tokens + 1
    /\ UNCHANGED <<cvars, args, tmp_state_root, inflight, hi_min, db, endpoint, pc, slot,
                   min_slot, max_slot, last_nonempty_slot, blk_root, wrote,
                   requested, rerun, mode>>

\* SendRequest without the ratelimiter_wait before it
SendRequest_NoWait ==
    /\ AtRequest
    /\ inflight = 0
    /\ tokens' = tokens - 1
    /\ inflight' = inflight + 1
    /\ requested' = rerun
    /\ UNCHANGED <<cvars, args, tmp_state_root, hi_min, db, endpoint, pc, slot,
                   min_slot, max_slot, last_nonempty_slot, blk_root, wrote,
                   rerun, mode>>

\* the request of lines 84, 110, 144, 154, 174, 184 is sent; the task awaits
\* the answer
SendRequest ==
    /\ AtRequest
    /\ tokens = 1
    /\ inflight = 0
    /\ tokens' = tokens - 1
    /\ inflight' = inflight + 1
    /\ requested' = rerun
    /\ UNCHANGED <<cvars, args, tmp_state_root, hi_min, db, endpoint, pc, slot,
                   min_slot, max_slot, last_nonempty_slot, blk_root, wrote,
                   rerun, mode>>

\* a request fails (transport, status or decode error): `?` returns Err
ApiError ==
    /\ AtRequest
    /\ inflight = 1
    /\ Exit("failed")
    /\ requested' = rerun
    /\ UNCHANGED <<cvars, hi_min, db, endpoint, min_slot, max_slot, wrote, rerun, mode>>

\* the process is cancelled between two store operations or API requests
Interrupt ==
    /\ Running
    /\ Exit("interrupted")
    /\ mode' = IF mode = "first" THEN "interrupted" ELSE "other"
    /\ UNCHANGED <<cvars, hi_min, db, endpoint, min_slot, max_slot, wrote, requested, rerun>>

\* -------------------------------------------- one uninterrupted run, whole
\* lines 74-199 for the slots s..hi-1, every request answered by ep
RECURSIVE RunFrom(_, _, _, _, _)
RunFrom(ep, d, last, s, hi) ==
    IF s >= hi THEN d
    ELSE IF s \in d.slot_synched THEN RunFrom(ep, d, last, s + 1, hi)
    ELSE IF get_blockroot_by_slot(ep, s) # NoRoot
    THEN LET r == get_blockroot_by_slot(ep, s)
             b == get_block_by_blockroot(ep, r)
             e == slot_to_epoch(s)
             d1 == [d EXCEPT !.block_slot = Put(@, s, r),
                             !.ebb = IF is_epoch_boundary_slot(s) THEN Put(@, e, s) ELSE @,
                             !.block_root = Put(@, r, b)]
             d2 == IF e \in d.epoch_state_synched THEN d1
                   ELSE [d1 EXCEPT
                           !.fin = Put(@, b.state_root,
                                       get_state_finality_checkpoints_by_slot(ep, s)),
                           !.committees = Put(@, b.state_root,
                                              get_state_committees_by_slot(ep, s)),
                           !.epoch_state_synched = @ \cup {e}]
         IN  RunFrom(ep, [d2 EXCEPT !.slot_synched = @ \cup {s}], s, s + 1, hi)
    ELSE LET d1 == IF is_epoch_boundary_slot(s) /\ last # NoSlot
                   THEN [d EXCEPT !.ebb = Put(@, slot_to_epoch(s), last)] ELSE d
         IN  RunFrom(ep, [d1 EXCEPT !.slot_synched = @ \cup {s}], last, s + 1, hi)

MaxOf(S) == CHOOSE x \in S : \A y \in S : y <= x

\* ---------------------------------- what the evaluator presupposes stored
\* chain_{r} as the disabled lines 118-137 of sync::main build it, for the
\* stored blocks in slot order
RECURSIVE BuildChains(_, _, _)
BuildChains(blocks, chain, s) ==
    IF s > MaxSlot THEN chain
    ELSE IF RootOf(s) \notin DOMAIN blocks THEN BuildChains(blocks, chain, s + 1)
    ELSE LET r == RootOf(s)
             b == blocks[r]
         IN  IF b.parent_root = ZERO_ROOT
             THEN BuildChains(blocks, Put(chain, r, <<r>>), s + 1)
             ELSE IF b.parent_root \in DOMAIN chain
             THEN BuildChains(blocks, Put(chain, r, Append(chain[b.parent_root], r)), s + 1)
             ELSE BuildChains(blocks, chain, s + 1)

\* The store is completed with what this build of the archiver leaves out.
\* sync_progress: the highest slot whose marker is set
WriteSyncProgress ==
    /\ ~Running
    /\ ~ConfRunning
    /\ db.slot_synched # {}
    /\ db' = [db EXCEPT !.sync_progress = Put(@, "v", MaxOf(db.slot_synched))]
    /\ db' # db
    /\ ConfReset
    /\ UNCHANGED <<args, tmp_state_root, limiter, endpoint, pc, slot, min_slot, max_slot, last_nonempty_slot,
                   blk_root, wrote, requested, rerun, mode, hi_min>>

\* the chain_* entries of the stored blocks
WriteChains ==
    /\ ~Running
    /\ ~ConfRunning
    /\ db' = [db EXCEPT !.chain = BuildChains(db.block_root, EmptyFn, 0)]
    /\ db' # db
    /\ ConfReset
    /\ UNCHANGED <<args, tmp_state_root, limiter, endpoint, pc, slot, min_slot, max_slot, last_nonempty_slot,
                   blk_root, wrote, requested, rerun, mode, hi_min>>

\* ------------------------------------------------------------ evaluator
\* rule::ConfirmationRuleState::new
NewRuleState(q, tip_blkroot, tip_slot) ==
    [quorum |-> q, tip_blkroot |-> tip_blkroot, tip_slot |-> tip_slot]

RECURSIVE SumSizes(_, _)
SumSizes(committees, i) ==
    IF i > Len(committees) THEN 0
    ELSE Len(committees[i].validators) + SumSizes(committees, i + 1)

\* the validators an attestation names: the members of its committee at the
\* positions set in its bitfield
Voters(a, committees) ==
    UNION {{c.validators[i] : i \in {j \in 1..Len(c.validators) :
                                        j <= Len(a.aggregation_bitfield)
                                        /\ a.aggregation_bitfield[j]}} :
           c \in {committees[k] : k \in {n \in 1..Len(committees) :
                      /\ committees[n].slot = a.slot_committee
                      /\ committees[n].index = a.committee_index}}}

\* rule::count_votes_for_confirmation, quorum q in percent
count_votes_for_confirmation(q, slot_em1, slot_e, blkroot_em1, committees, blkroots, blks) ==
    LET T == SumSizes(committees, 1)
        considered == {a \in UNION {{blks[i].attestations[j] :
                                        j \in 1..Len(blks[i].attestations)} :
                                    i \in 1..Len(blks)} :
                          /\ a.target.root = blkroot_em1
                          /\ a.slot_committee >= slot_em1
                          /\ a.slot_committee < slot_e}
        V == UNION {Voters(a, committees) : a \in considered}
    IN  Cardinality(V) * 100 >= q * T

\* lines 69-70, 73, 80
slot_e == epoch_to_slot(epoch)
slot_em1 == epoch_to_slot(epoch - 1)
blkroot_e == db.block_slot[slot_e]
blkroot_em1 == db.block_slot[slot_em1]
\* line 94
blk_em1 == db.block_root[blkroot_em1]
\* lines 100-107
chain_e == db.chain[blkroot_e]
chain_em1 == db.chain[blkroot_em1]
\* line 111
committees == db.committees[blk_em1.state_root]
\* lines 117-125
blkroots == SubSeq(chain_e, Len(chain_em1), Len(chain_e))
blks == [i \in 1..Len(blkroots) |-> db.block_root[blkroots[i]]]
\* lines 128-139
cp_finalized_blkroot ==
    LET r == db.fin[blk_em1.state_root].finalized.root
    IN  IF r = ZERO_ROOT THEN HEADER_GENESIS_ROOT ELSE r
\* lines 142-153
cp_finalized_blk == db.block_root[cp_finalized_blkroot]
chain_tip_new == db.chain[cp_finalized_blkroot]

\* every read of lines 94-153 finds its key and the prefix assertion of
\* line 108 holds
PrecursorsPresent ==
    /\ blkroot_em1 \in DOMAIN db.block_root
    /\ blkroot_e \in DOMAIN db.chain
    /\ blkroot_em1 \in DOMAIN db.chain
    /\ is_prefix_of(chain_em1, chain_e)
    /\ blk_em1.state_root \in DOMAIN db.committees
    /\ Len(chain_em1) >= 1
    /\ \A i \in 1..Len(blkroots) : blkroots[i] \in DOMAIN db.block_root
    /\ blk_em1.state_root \in DOMAIN db.fin
    /\ cp_finalized_blkroot \in DOMAIN db.block_root
    /\ cp_finalized_blkroot \in DOMAIN db.chain

Record(t, rule) ==
    [t |-> t, quorum |-> rule.quorum, tip |-> rule.tip_blkroot, slot |-> rule.tip_slot]

aunch == <<endpoint, db, pc, slot, min_slot, max_slot, last_nonempty_slot,
           blk_root, wrote, requested, rerun, mode, hi_min,
           arg_max_slot, now_slot, tmp_state_root, tokens, inflight>>

\* ConfStart refusing also a store synced exactly up to max_slot (<= for the
\* < of line 48)
ConfStart_GateLe(quorum, max, now) ==
    /\ ~Running
    /\ ~ConfRunning
    /\ \/ /\ now < GAP_LATEST_SLOT_NOW_SLOT_CANONICAL_CHAIN_STABILITY
          /\ cpc' = "panic"
          /\ c_max_slot' = 0
          /\ conf_rule_states' = << >>
          /\ ledger' = << >>
          /\ epoch' = 0
       \/ LET m == ClampMax(max, now)
              last_synced_slot == IF DOMAIN db.sync_progress = {} THEN 0
                                  ELSE db.sync_progress["v"]
              rules == [i \in 1..Len(quorum) |->
                           NewRuleState(quorum[i], HEADER_GENESIS_ROOT, 0)]
          IN  /\ c_max_slot' = m
              /\ IF last_synced_slot <= m
                 THEN /\ cpc' = "err_sync"
                      /\ conf_rule_states' = << >>
                      /\ ledger' = << >>
                      /\ epoch' = 0
                 ELSE /\ cpc' = "epoch"
                      /\ conf_rule_states' = rules
                      /\ ledger' = [i \in 1..Len(quorum) |-> Record(0, rules[i])]
                      /\ epoch' = 1
    /\ ridx' = 0
    /\ c_arg_max_slot' = max
    /\ c_now_slot' = now
    /\ UNCHANGED aunch

\* lines 8-62: open the store read-only, clamp and coerce max_slot, refuse
\* an incomplete sync, set up the rules and print their t=0 records
ConfStart(quorum, max, now) ==
    /\ ~Running
    /\ ~ConfRunning
    /\ \/ /\ now < GAP_LATEST_SLOT_NOW_SLOT_CANONICAL_CHAIN_STABILITY
          /\ cpc' = "panic"
          /\ c_max_slot' = 0
          /\ conf_rule_states' = << >>
          /\ ledger' = << >>
          /\ epoch' = 0
       \/ LET m == ClampMax(max, now)
              last_synced_slot == IF DOMAIN db.sync_progress = {} THEN 0
                                  ELSE db.sync_progress["v"]
              rules == [i \in 1..Len(quorum) |->
                           NewRuleState(quorum[i], HEADER_GENESIS_ROOT, 0)]
          IN  /\ c_max_slot' = m
              /\ IF last_synced_slot < m
                 THEN /\ cpc' = "err_sync"
                      /\ conf_rule_states' = << >>
                      /\ ledger' = << >>
                      /\ epoch' = 0
                 ELSE /\ cpc' = "epoch"
                      /\ conf_rule_states' = rules
                      /\ ledger' = [i \in 1..Len(quorum) |-> Record(0, rules[i])]
                      /\ epoch' = 1
    /\ ridx' = 0
    /\ c_arg_max_slot' = max
    /\ c_now_slot' = now
    /\ UNCHANGED aunch

\* line 65: the epochs are exhausted, Ok(())
ConfExit ==
    /\ cpc = "epoch"
    /\ epoch > slot_to_epoch(c_max_slot)
    /\ cpc' = "done"
    /\ epoch' = 0
    /\ UNCHANGED <<aunch, c_arg_max_slot, c_now_slot, c_max_slot, ridx, conf_rule_states, ledger>>

\* ConfSkipEpoch failing on the missing boundary block root (an expect() for
\* the `continue` of lines 77 and 84)
ConfSkipEpoch_Abort ==
    /\ cpc = "epoch"
    /\ epoch <= slot_to_epoch(c_max_slot)
    /\ \/ slot_e \notin DOMAIN db.block_slot
       \/ slot_em1 \notin DOMAIN db.block_slot
    /\ cpc' = "panic"
    /\ UNCHANGED <<aunch, c_arg_max_slot, c_now_slot, epoch, c_max_slot, ridx,
                   conf_rule_states, ledger>>

\* lines 73-86: a boundary block root is missing, the epoch is skipped
ConfSkipEpoch ==
    /\ cpc = "epoch"
    /\ epoch <= slot_to_epoch(c_max_slot)
    /\ \/ slot_e \notin DOMAIN db.block_slot
       \/ slot_em1 \notin DOMAIN db.block_slot
    /\ epoch' = epoch + 1
    /\ UNCHANGED <<aunch, c_arg_max_slot, c_now_slot, cpc, c_max_slot, ridx, conf_rule_states, ledger>>

\* lines 94-153: one of the expect()s or the assertion of line 108 fails
ConfLoadPanic ==
    /\ cpc = "epoch"
    /\ epoch <= slot_to_epoch(c_max_slot)
    /\ slot_e \in DOMAIN db.block_slot
    /\ slot_em1 \in DOMAIN db.block_slot
    /\ ~PrecursorsPresent
    /\ cpc' = "panic"
    /\ UNCHANGED <<aunch, c_arg_max_slot, c_now_slot, c_max_slot, epoch, ridx, conf_rule_states, ledger>>

\* lines 94-153: everything the rules need is loaded
ConfLoad ==
    /\ cpc = "epoch"
    /\ epoch <= slot_to_epoch(c_max_slot)
    /\ slot_e \in DOMAIN db.block_slot
    /\ slot_em1 \in DOMAIN db.block_slot
    /\ PrecursorsPresent
    /\ cpc' = "rules"
    /\ ridx' = 1
    /\ UNCHANGED <<aunch, c_arg_max_slot, c_now_slot, c_max_slot, epoch, conf_rule_states, ledger>>

\* the inner loop moves to the next rule, or the outer loop to the next epoch
NextRule ==
    IF ridx < Len(conf_rule_states)
    THEN /\ ridx' = ridx + 1
         /\ UNCHANGED <<cpc, epoch>>
    ELSE /\ ridx' = 0
         /\ cpc' = "epoch"
         /\ epoch' = epoch + 1

\* rule::update_tip
update_tip(rule, tip_blkroot, tip_slot) ==
    [rule EXCEPT !.tip_blkroot = tip_blkroot, !.tip_slot = tip_slot]

\* ConfRule without the assertion of line 164
ConfRule_NoAssert ==
    /\ cpc = "rules"
    /\ LET rule == conf_rule_states[ridx]
       IN  IF count_votes_for_confirmation(rule.quorum, slot_em1, slot_e, blkroot_em1,
                                           committees, blkroots, blks)
           THEN LET new == update_tip(rule, cp_finalized_blkroot, cp_finalized_blk.slot)
                IN  /\ conf_rule_states' = [conf_rule_states EXCEPT ![ridx] = new]
                    /\ ledger' = Append(ledger, Record(slot_e, new))
                    /\ NextRule
           ELSE /\ NextRule
                /\ UNCHANGED <<conf_rule_states, ledger>>
    /\ UNCHANGED <<aunch, c_arg_max_slot, c_now_slot, c_max_slot>>

\* ConfRule passing over a rule whose tip the target does not extend,
\* where line 164 aborts
ConfRule_SkipOnFork ==
    /\ cpc = "rules"
    /\ LET rule == conf_rule_states[ridx]
       IN  IF /\ count_votes_for_confirmation(rule.quorum, slot_em1, slot_e, blkroot_em1,
                                              committees, blkroots, blks)
              /\ rule.tip_blkroot \in DOMAIN db.chain
              /\ is_prefix_of(db.chain[rule.tip_blkroot], chain_tip_new)
           THEN LET new == update_tip(rule, cp_finalized_blkroot, cp_finalized_blk.slot)
                IN  /\ conf_rule_states' = [conf_rule_states EXCEPT ![ridx] = new]
                    /\ ledger' = Append(ledger, Record(slot_e, new))
                    /\ NextRule
           ELSE /\ NextRule
                /\ UNCHANGED <<conf_rule_states, ledger>>
    /\ UNCHANGED <<aunch, c_arg_max_slot, c_now_slot, c_max_slot>>

\* ConfRule without the println of line 167
ConfRule_NoPrint ==
    /\ cpc = "rules"
    /\ LET rule == conf_rule_states[ridx]
       IN  IF count_votes_for_confirmation(rule.quorum, slot_em1, slot_e, blkroot_em1,
                                           committees, blkroots, blks)
           THEN IF /\ rule.tip_blkroot \in DOMAIN db.chain
                   /\ is_prefix_of(db.chain[rule.tip_blkroot], chain_tip_new)
                THEN LET new == update_tip(rule, cp_finalized_blkroot, cp_finalized_blk.slot)
                     IN  /\ conf_rule_states' = [conf_rule_states EXCEPT ![ridx] = new]
                         /\ UNCHANGED ledger
                         /\ NextRule
                ELSE /\ cpc' = "panic"
                     /\ UNCHANGED <<epoch, ridx, conf_rule_states, ledger>>
           ELSE /\ NextRule
                /\ UNCHANGED <<conf_rule_states, ledger>>
    /\ UNCHANGED <<aunch, c_arg_max_slot, c_now_slot, c_max_slot>>

\* ConfRule reading an absent chain_{tip_old} as the empty chain, where the
\* expect() of line 162 aborts
ConfRule_TipChainDefault ==
    /\ cpc = "rules"
    /\ LET rule == conf_rule_states[ridx]
           chain_tip_old == IF rule.tip_blkroot \in DOMAIN db.chain
                            THEN db.chain[rule.tip_blkroot] ELSE << >>
       IN  IF count_votes_for_confirmation(rule.quorum, slot_em1, slot_e, blkroot_em1,
                                           committees, blkroots, blks)
           THEN IF is_prefix_of(chain_tip_old, chain_tip_new)
                THEN LET new == update_tip(rule, cp_finalized_blkroot, cp_finalized_blk.slot)
                     IN  /\ conf_rule_states' = [conf_rule_states EXCEPT ![ridx] = new]
                         /\ ledger' = Append(ledger, Record(slot_e, new))
                         /\ NextRule
                ELSE /\ cpc' = "panic"
                     /\ UNCHANGED <<epoch, ridx, conf_rule_states, ledger>>
           ELSE /\ NextRule
                /\ UNCHANGED <<conf_rule_states, ledger>>
    /\ UNCHANGED <<aunch, c_arg_max_slot, c_now_slot, c_max_slot>>

\* lines 156-169, one iteration of the loop over the rules
ConfRule ==
    /\ cpc = "rules"
    /\ LET rule == conf_rule_states[ridx]
       IN  IF count_votes_for_confirmation(rule.quorum, slot_em1, slot_e, blkroot_em1,
                                           committees, blkroots, blks)
           THEN IF /\ rule.tip_blkroot \in DOMAIN db.chain
                   /\ is_prefix_of(db.chain[rule.tip_blkroot], chain_tip_new)
                THEN LET new == update_tip(rule, cp_finalized_blkroot, cp_finalized_blk.slot)
                     IN  /\ conf_rule_states' = [conf_rule_states EXCEPT ![ridx] = new]
                         /\ ledger' = Append(ledger, Record(slot_e, new))
                         /\ NextRule
                ELSE /\ cpc' = "panic"
                     /\ UNCHANGED <<epoch, ridx, conf_rule_states, ledger>>
           ELSE /\ NextRule
                /\ UNCHANGED <<conf_rule_states, ledger>>
    /\ UNCHANGED <<aunch, c_arg_max_slot, c_now_slot, c_max_slot>>

vars == <<endpoint, db, pc, slot, min_slot, max_slot, last_nonempty_slot,
          blk_root, wrote, requested, rerun, mode, hi_min,
          arg_max_slot, now_slot, tmp_state_root, tokens, inflight,
          cpc, c_arg_max_slot, c_now_slot, c_max_slot, epoch, ridx,
          conf_rule_states, ledger>>

BitChoices == {<<TRUE, FALSE>>, <<TRUE, TRUE>>}
FinChoices == {ZERO_ROOT, RootOf(SLOTS_PER_EPOCH)}
\* the command lines <<min_slot, max_slot, now_slot>>: every pair of a lower
\* and an upper bound long after the range (no clamping), and the full range
\* at a time when the upper bound is clamped and when now_slot < GAP
NowLate == GAP_LATEST_SLOT_NOW_SLOT_CANONICAL_CHAIN_STABILITY + MaxSlot
ArgMin == {epoch_to_slot(e) : e \in Epochs \ {0}} \cup {1}
ArgMax == {epoch_to_slot(e) : e \in Epochs \ {0}} \cup {1}
RunArgs ==
    {<<lo, hi, NowLate>> : lo \in ArgMin, hi \in ArgMax}
    \cup {<<0, MaxSlot, NowLate - 1>>,
          <<0, MaxSlot, GAP_LATEST_SLOT_NOW_SLOT_CANONICAL_CHAIN_STABILITY - 1>>}

\* no process has been started
InitIdle ==
    /\ pc = "idle"
    /\ slot = 0
    /\ min_slot = 0
    /\ max_slot = 0
    /\ last_nonempty_slot = NoSlot
    /\ blk_root = NoRoot
    /\ wrote = FALSE
    /\ requested = FALSE
    /\ rerun = FALSE
    /\ mode = "fresh"
    /\ hi_min = 0
    /\ arg_max_slot = 0
    /\ now_slot = 0
    /\ tmp_state_root = NoRoot
    /\ tokens = 0
    /\ inflight = 0
    /\ cpc = "idle"
    /\ c_arg_max_slot = 0
    /\ c_now_slot = 0
    /\ c_max_slot = 0
    /\ epoch = 0
    /\ ridx = 0
    /\ conf_rule_states = << >>
    /\ ledger = << >>

InitArchiver ==
    /\ db = EmptyDb
    /\ InitIdle

Init ==
    /\ endpoint \in [nonempty : {S \in SUBSET Slots : Cardinality(Slots \ S) <= MaxEmpty},
                     fin : [Epochs -> {ZERO_ROOT}],
                     bits : [1..MaxSlot -> {<<TRUE, TRUE>>}]]
    /\ InitArchiver

Next ==
    \/ \E a \in RunArgs : StartRun(a[1], a[2], a[3])
    \/ LoopExit
    \/ SkipSynched
    \/ FetchBlockRootSome
    \/ PutEbbSelf
    \/ FetchBlockRootNone
    \/ PutEbbPrev
    \/ MarkEmpty
    \/ FetchBlock
    \/ \E r \in StateRootAnswers(slot) : CheckStateRoot1(r)
    \/ FetchFinalityCheckpoints
    \/ FetchCommittees
    \/ \E r \in StateRootAnswers(slot) : CheckStateRoot2(r)
    \/ MarkSlot
    \/ ratelimiter_wait
    \/ SendRequest
    \/ ApiError
    \/ Interrupt

Spec == Init /\ [][Next]_vars

\* ----------------------------------------- archiver, then evaluator
\* the endpoint always answers, with the block's state root; the chain's
\* attestations and finalized checkpoints vary
ConfNonempty == {Slots, Slots \ {MaxSlot}}
ConfRunArgs == {<<0, SLOTS_PER_EPOCH, NowLate>>, <<0, MaxSlot, NowLate>>}
QuorumVecs == {<<51, 90>>, <<90, 51>>, <<67>>}
ConfArgs ==
    {<<0, NowLate>>, <<MaxSlot, NowLate>>, <<MaxSlot, NowLate - SLOTS_PER_EPOCH>>,
     <<MaxSlot, GAP_LATEST_SLOT_NOW_SLOT_CANONICAL_CHAIN_STABILITY - 1>>}

InitConf ==
    /\ endpoint \in [nonempty : ConfNonempty,
                     fin : {f \in [Epochs -> FinChoices] : f[MaxEpoch] = ZERO_ROOT},
                     bits : [1..MaxSlot -> BitChoices]]
    /\ InitArchiver

NextConf ==
    \/ \E a \in ConfRunArgs : StartRun(a[1], a[2], a[3])
    \/ LoopExit
    \/ SkipSynched
    \/ FetchBlockRootSome
    \/ PutEbbSelf
    \/ FetchBlockRootNone
    \/ PutEbbPrev
    \/ MarkEmpty
    \/ FetchBlock
    \/ CheckStateRoot1(StateRootOf(slot))
    \/ FetchFinalityCheckpoints
    \/ FetchCommittees
    \/ CheckStateRoot2(StateRootOf(slot))
    \/ MarkSlot
    \/ ratelimiter_wait
    \/ SendRequest
    \/ WriteSyncProgress
    \/ WriteChains
    \/ \E q \in QuorumVecs, a \in ConfArgs : ConfStart(q, a[1], a[2])
    \/ ConfExit
    \/ ConfSkipEpoch
    \/ ConfLoadPanic
    \/ ConfLoad
    \/ ConfRule

SpecConf == InitConf /\ [][NextConf]_vars

\* ------------------------------------------------- the evaluator alone
\* chain_{r} for the block of slot s: the roots from genesis to r
ChainOf(ep, s) ==
    LET upto == SelectSeq([i \in 1..(s + 1) |-> i - 1],
                          LAMBDA u : u \in ep.nonempty)
    IN  [i \in 1..Len(upto) |-> RootOf(upto[i])]

Without(f, k) == [x \in DOMAIN f \ {k} |-> f[x]]

\* the store the evaluator is started on: what an archiver run over
\* [lo, MaxSlot] leaves, with chain_{r} for every stored block and
\* sync_progress = MaxSlot, less the entry drop[2] of the family drop[1]
EvalStore(ep, lo, drop) ==
    LET d == RunFrom(ep, EmptyDb, NoSlot, lo, MaxSlot + 1)
        full == [d EXCEPT !.chain = [r \in DOMAIN d.block_root |->
                                        ChainOf(ep, SlotOfRoot(r))],
                          !.sync_progress = Put(EmptyFn, "v", MaxSlot)]
    IN  CASE drop[1] = "block" -> [full EXCEPT !.block_root = Without(@, drop[2])]
          [] drop[1] = "chain" -> [full EXCEPT !.chain = Without(@, drop[2])]
          [] drop[1] = "fin" -> [full EXCEPT !.fin = Without(@, drop[2])]
          [] drop[1] = "committees" -> [full EXCEPT !.committees = Without(@, drop[2])]
          [] drop[1] = "slot" ->
                 [full EXCEPT !.block_slot = Without(@, SlotOfRoot(drop[2]))]
          [] OTHER -> full

EvalNonempty == {Slots, Slots \ {MaxSlot}, Slots \ {SLOTS_PER_EPOCH + 1}}
EvalBits ==
    {b \in [1..MaxSlot -> BitChoices] :
        Cardinality({s \in 1..MaxSlot : b[s] # <<TRUE, TRUE>>}) <= 1}
EvalFin == {f \in [Epochs -> FinChoices] : f[MaxEpoch] = ZERO_ROOT}
NoDrop == <<"none", NoRoot>>
Drops ==
    {NoDrop}
    \cup ({"block", "chain", "fin", "committees", "slot"} \X {RootOf(s) : s \in Slots})
EvalStores(ep) ==
    {EvalStore(ep, 0, k) : k \in Drops}
    \cup {EvalStore(ep, SLOTS_PER_EPOCH, NoDrop)}

InitEval ==
    /\ endpoint \in [nonempty : EvalNonempty, fin : EvalFin, bits : EvalBits]
    /\ db \in EvalStores(endpoint)
    /\ InitIdle

NextEval ==
    \/ \E q \in QuorumVecs, a \in ConfArgs : ConfStart(q, a[1], a[2])
    \/ ConfExit
    \/ ConfSkipEpoch
    \/ ConfLoadPanic
    \/ ConfLoad
    \/ ConfRule

SpecEval == InitEval /\ [][NextEval]_vars

\* ================================================================ claims

\* One uninterrupted run from the fresh store leaves the store RunFrom
\* computes (the step actions and the whole-run operator agree).
FirstRunIsRunFrom ==
    (mode = "first" /\ pc = "done")
        => db = RunFrom(endpoint, EmptyDb, NoSlot, min_slot, max_slot)

\* C1: a run from the fresh store that is interrupted and then run again to
\* completion over the same range leaves the store one uninterrupted run
\* over that range leaves.
C1_ResumedStoreEqualsUninterrupted ==
    (mode = "resumed" /\ pc = "done")
        => db = RunFrom(endpoint, EmptyDb, NoSlot, min_slot, max_slot)

\* C2: in the store left by a completed first run, or by a run that was
\* interrupted and then run again to completion over the same range, every
\* epoch of the range whose boundary slot is marked synched and that has a
\* non-empty slot of the range at or before its boundary has
\* ebb_{e}_source_slot, with a value <= the boundary.
C2_EbbPopulated ==
    (pc = "done" /\ mode \in {"first", "resumed"}) =>
        \A e \in Epochs :
            (/\ epoch_to_slot(e) \in db.slot_synched
             /\ epoch_to_slot(e) >= min_slot
             /\ epoch_to_slot(e) < max_slot
             /\ \E s \in DOMAIN db.block_slot :
                    s >= min_slot /\ s <= epoch_to_slot(e))
            => (e \in DOMAIN db.ebb /\ db.ebb[e] <= epoch_to_slot(e))

\* C3: the value just written to ebb_{e}_source_slot for an empty boundary
\* slot is the greatest slot below the boundary whose block_{s} is stored.
C3_EbbIsMostRecentNonempty ==
    (pc = "mark_empty" /\ is_epoch_boundary_slot(slot) /\ last_nonempty_slot # NoSlot)
        => db.ebb[slot_to_epoch(slot)]
               = MaxOf({s \in DOMAIN db.block_slot : s < slot})

\* C4: a run that follows a successful run over the same range writes
\* nothing and requests nothing: it stays at the loop head, where it only
\* reads the markers, and every slot of the range carries its marker.
C4_RerunIsIdle ==
    rerun =>
        /\ ~wrote
        /\ ~requested
        /\ pc \in {"loop", "done", "interrupted"}
        /\ \A s \in min_slot..(max_slot - 1) : s \in db.slot_synched
C4_Witness ==
    /\ rerun
    /\ pc = "done"
    /\ max_slot = MaxSlot + 1
    /\ min_slot = 0
    /\ DOMAIN db.block_slot # {}
    /\ db.slot_synched # DOMAIN db.block_slot

\* C5: when a run completes, sync_progress holds the highest slot whose
\* marker is set.
C5_SyncProgressWritten ==
    (pc = "done" /\ db.slot_synched # {})
        => /\ DOMAIN db.sync_progress # {}
           /\ \A k \in DOMAIN db.sync_progress :
                  db.sync_progress[k] = MaxOf(db.slot_synched)

\* C9 as claimed: during every run, a set marker implies the markers of all
\* lower slots from the run's min_slot.
C9_MonotoneSyncAnyHistory ==
    Running =>
        \A s \in db.slot_synched :
            \A t \in min_slot..(s - 1) : t \in db.slot_synched
\* C9 amended: the same, for runs on a store on which no earlier run had a
\* greater coerced min_slot.
C9_MonotoneSync ==
    (Running /\ min_slot = hi_min) =>
        \A s \in db.slot_synched :
            \A t \in min_slot..(s - 1) : t \in db.slot_synched
C9_Witness ==
    /\ Running
    /\ mode = "other"
    /\ min_slot = hi_min
    /\ min_slot > 0
    /\ slot > min_slot + 1
    /\ 0 \in db.slot_synched
    /\ \E s \in db.slot_synched : s >= min_slot /\ s \notin DOMAIN db.block_slot

\* C10: every stored block_{s} = r has block_{r} stored, with slot s.
C10_RootSlotConsistent ==
    \A s \in DOMAIN db.block_slot :
        /\ db.block_slot[s] \in DOMAIN db.block_root
        /\ db.block_root[db.block_slot[s]].slot = s
\* the rule of quorum q confirms at the boundary of epoch e on the endpoint's
\* chain (all slots non-empty)
QuorumMetAt(q, e) ==
    LET s1 == epoch_to_slot(e - 1)
        s2 == epoch_to_slot(e)
    IN  count_votes_for_confirmation(q, s1, s2, RootOf(s1), CommitteesOf(e - 1),
            [i \in 1..(s2 - s1 + 1) |-> RootOf(s1 + i - 1)],
            [i \in 1..(s2 - s1 + 1) |-> BlockOf(endpoint, s1 + i - 1)])

Advanced(q, t) == \E k \in 1..Len(ledger) : ledger[k].quorum = q /\ ledger[k].t = t
RecordsOf(q) == {k \in 1..Len(ledger) : ledger[k].quorum = q}

\* C6: on the store one successful run over [0, M] leaves from the fresh
\* store, every slot non-empty and M >= SLOTS_PER_EPOCH, the evaluator run
\* with max_slot = M passes the sync check, meets no fatal error and prints,
\* after the t=0 records, a record at exactly the boundaries where the
\* rule's quorum is met.
C6_EndToEnd ==
    (/\ cpc # "idle"
     /\ mode = "first" /\ pc = "done"
     /\ min_slot = 0 /\ max_slot - 1 >= SLOTS_PER_EPOCH
     /\ c_max_slot = max_slot - 1
     /\ endpoint.nonempty = Slots
     /\ db.chain = EmptyFn /\ db.sync_progress = EmptyFn)
    => /\ cpc \notin {"err_sync", "panic"}
       /\ cpc = "done" =>
              \A i \in 1..Len(conf_rule_states) :
                  \A e \in 1..slot_to_epoch(c_max_slot) :
                      Advanced(conf_rule_states[i].quorum, epoch_to_slot(e))
                          <=> QuorumMetAt(conf_rule_states[i].quorum, e)

\* C7: the records of one rule carry tips whose chains extend one another in
\* the order printed, with slots that never decrease, and the rule's state
\* is its last record: no tip moves off the chain of the one before.
C7_RuleMonotone ==
    /\ \A i \in 1..Len(ledger) : \A j \in (i + 1)..Len(ledger) :
           ledger[i].quorum = ledger[j].quorum =>
               /\ ledger[i].tip \in DOMAIN db.chain
               /\ ledger[j].tip \in DOMAIN db.chain
               /\ is_prefix_of(db.chain[ledger[i].tip], db.chain[ledger[j].tip])
               /\ ledger[i].slot <= ledger[j].slot
    /\ \A i \in 1..Len(conf_rule_states) :
           LET ks == RecordsOf(conf_rule_states[i].quorum)
           IN  /\ ks # {}
               /\ ledger[MaxOf(ks)].tip = conf_rule_states[i].tip_blkroot
               /\ ledger[MaxOf(ks)].slot = conf_rule_states[i].tip_slot
C7_Witness ==
    /\ cpc = "done"
    /\ \E i \in 1..Len(ledger) : \E j \in (i + 1)..Len(ledger) :
           /\ ledger[i].quorum = ledger[j].quorum
           /\ ledger[i].t > 0
           /\ ledger[j].slot > ledger[i].slot

\* C8 as claimed: after every epoch, for rules with quorums q_lo < q_hi, the
\* q_lo rule has advanced at every boundary where the q_hi rule has, has at
\* least as many records, and its tip_slot is at least the q_hi rule's.
C8_QuorumOrderingAnyOrder ==
    cpc \in {"epoch", "done", "panic"} =>
        \A i \in 1..Len(conf_rule_states) : \A j \in 1..Len(conf_rule_states) :
            conf_rule_states[i].quorum < conf_rule_states[j].quorum =>
                /\ \A t \in Slots : Advanced(conf_rule_states[j].quorum, t)
                                      => Advanced(conf_rule_states[i].quorum, t)
                /\ Cardinality(RecordsOf(conf_rule_states[i].quorum))
                       >= Cardinality(RecordsOf(conf_rule_states[j].quorum))
                /\ conf_rule_states[i].tip_slot >= conf_rule_states[j].tip_slot
\* C8 amended: the same at every point of the run, for a q_lo rule that
\* precedes the q_hi rule in the quorum vector.
C8_QuorumOrdering ==
    \A i \in 1..Len(conf_rule_states) : \A j \in (i + 1)..Len(conf_rule_states) :
        conf_rule_states[i].quorum < conf_rule_states[j].quorum =>
            /\ \A t \in Slots : Advanced(conf_rule_states[j].quorum, t)
                                  => Advanced(conf_rule_states[i].quorum, t)
            /\ Cardinality(RecordsOf(conf_rule_states[i].quorum))
                   >= Cardinality(RecordsOf(conf_rule_states[j].quorum))
            /\ conf_rule_states[i].tip_slot >= conf_rule_states[j].tip_slot
C8_Witness ==
    /\ cpc = "done"
    /\ Len(conf_rule_states) = 2
    /\ conf_rule_states[1].quorum < conf_rule_states[2].quorum
    /\ \E t \in Slots : t > 0 /\ Advanced(conf_rule_states[2].quorum, t)
    /\ Cardinality(RecordsOf(conf_rule_states[1].quorum))
           > Cardinality(RecordsOf(conf_rule_states[2].quorum))
    /\ conf_rule_states[1].tip_slot > 0

\* sync_progress as line 44-47 read it: 0 when the key is absent
last_synced_slot ==
    IF DOMAIN db.sync_progress = {} THEN 0 ELSE db.sync_progress["v"]
\* the evaluator is past its clamping and coercion (lines 20-41)
ConfClamped == cpc # "idle" /\ ~(cpc = "panic" /\ epoch = 0)

\* C11: an evaluator run whose coerced max_slot exceeds the stored
\* sync_progress (0 when absent) ends in the error "Sync is not complete"
\* with no LEDGER record printed; otherwise it is not refused and its first
\* records are the t=0 records, one per rule.
C11_SyncGate ==
    ConfClamped =>
        IF last_synced_slot < c_max_slot
        THEN cpc = "err_sync" /\ ledger = << >>
        ELSE /\ cpc # "err_sync"
             /\ Len(conf_rule_states) > 0
             /\ Len(ledger) >= Len(conf_rule_states)
             /\ \A i \in 1..Len(conf_rule_states) : ledger[i].t = 0
C11_Witness ==
    /\ cpc = "err_sync"
    /\ last_synced_slot > 0
    /\ c_max_slot > last_synced_slot

\* the evaluator does not skip epoch e: both boundary block roots are stored
\* (lines 73-86)
Evaluated(e) ==
    /\ epoch_to_slot(e) \in DOMAIN db.block_slot
    /\ epoch_to_slot(e - 1) \in DOMAIN db.block_slot
\* what line 157 returns for the rule of quorum q in epoch e, on the store
PredicateAt(q, e) ==
    LET s1 == epoch_to_slot(e - 1)
        s2 == epoch_to_slot(e)
        r1 == db.block_slot[s1]
        c1 == db.chain[r1]
        c2 == db.chain[db.block_slot[s2]]
        roots == SubSeq(c2, Len(c1), Len(c2))
    IN  count_votes_for_confirmation(q, s1, s2, r1,
            db.committees[db.block_root[r1].state_root], roots,
            [i \in 1..Len(roots) |-> db.block_root[roots[i]]])

\* C12: what a successful evaluator run has printed: first one t=0 record
\* per rule, in the order of the quorum vector, with tip HEADER_GENESIS_ROOT
\* and slot 0; then, in increasing epoch order and rule order within an
\* epoch, exactly one record with t = epoch_to_slot(e) for each epoch e that
\* is not skipped and each rule whose predicate returned true there, and no
\* other record; a rule's state is its last record; for max_slot = 0 only
\* the t=0 records.
C12_OutputStream ==
    cpc = "done" =>
        LET n == Len(conf_rule_states)
            later == (n + 1)..Len(ledger)
            idx(q) == CHOOSE i \in 1..n : conf_rule_states[i].quorum = q
        IN  /\ Len(ledger) >= n
            /\ \A i \in 1..n :
                   ledger[i] = [t |-> 0, quorum |-> conf_rule_states[i].quorum,
                                tip |-> HEADER_GENESIS_ROOT, slot |-> 0]
            /\ \A k \in later :
                   \E e \in 1..slot_to_epoch(c_max_slot) :
                       /\ ledger[k].t = epoch_to_slot(e)
                       /\ Evaluated(e)
                       /\ PredicateAt(ledger[k].quorum, e)
            /\ \A e \in 1..slot_to_epoch(c_max_slot) : \A i \in 1..n :
                   (Evaluated(e) /\ PredicateAt(conf_rule_states[i].quorum, e))
                       => Cardinality({k \in later :
                              /\ ledger[k].t = epoch_to_slot(e)
                              /\ ledger[k].quorum = conf_rule_states[i].quorum}) = 1
            /\ \A k \in later : \A l \in later :
                   k < l => \/ ledger[k].t < ledger[l].t
                            \/ /\ ledger[k].t = ledger[l].t
                               /\ idx(ledger[k].quorum) < idx(ledger[l].quorum)
            /\ \A i \in 1..n :
                   LET last == ledger[MaxOf(RecordsOf(conf_rule_states[i].quorum))]
                   IN  /\ conf_rule_states[i].tip_blkroot = last.tip
                       /\ conf_rule_states[i].tip_slot = last.slot
            /\ c_max_slot = 0 => Len(ledger) = n
C12_Witness ==
    /\ cpc = "done"
    /\ c_max_slot = MaxSlot
    /\ Len(conf_rule_states) = 2
    /\ \E e \in 1..MaxEpoch :
           /\ Advanced(conf_rule_states[1].quorum, epoch_to_slot(e))
           /\ ~Advanced(conf_rule_states[2].quorum, epoch_to_slot(e))
    /\ \E e \in 1..MaxEpoch :
           /\ Advanced(conf_rule_states[1].quorum, epoch_to_slot(e))
           /\ Advanced(conf_rule_states[2].quorum, epoch_to_slot(e))

\* the greatest epoch boundary slot <= min(max, now - GAP), or NoSlot
GreatestBoundaryBelow(max, now) ==
    LET cap == now - GAP_LATEST_SLOT_NOW_SLOT_CANONICAL_CHAIN_STABILITY
        m == IF max > cap THEN cap ELSE max
        c == {s \in 0..(IF m < 0 THEN 0 - 1 ELSE m) : is_epoch_boundary_slot(s)}
    IN  IF c = {} THEN NoSlot ELSE MaxOf(c)

\* C13: the upper slot an archiver run iterates to, and the max_slot an
\* evaluator run uses, is the greatest epoch boundary slot that is
\* <= min(requested max_slot, now_slot - GAP): an epoch boundary, at most
\* now_slot - GAP and at most the requested max_slot.
C13_MaxSlotClamped ==
    /\ Running =>
           /\ max_slot - 1 = GreatestBoundaryBelow(arg_max_slot, now_slot)
           /\ is_epoch_boundary_slot(max_slot - 1)
           /\ max_slot - 1 <= now_slot - GAP_LATEST_SLOT_NOW_SLOT_CANONICAL_CHAIN_STABILITY
           /\ max_slot - 1 <= arg_max_slot
    /\ ConfClamped =>
           /\ c_max_slot = GreatestBoundaryBelow(c_arg_max_slot, c_now_slot)
           /\ is_epoch_boundary_slot(c_max_slot)
           /\ c_max_slot <= c_now_slot - GAP_LATEST_SLOT_NOW_SLOT_CANONICAL_CHAIN_STABILITY
           /\ c_max_slot <= c_arg_max_slot
\* the same for the runs started at least GAP slots after genesis
C13_ClampedLate ==
    /\ (Running /\ now_slot >= GAP_LATEST_SLOT_NOW_SLOT_CANONICAL_CHAIN_STABILITY) =>
           max_slot - 1 = GreatestBoundaryBelow(arg_max_slot, now_slot)
    /\ (ConfClamped /\ c_now_slot >= GAP_LATEST_SLOT_NOW_SLOT_CANONICAL_CHAIN_STABILITY) =>
           c_max_slot = GreatestBoundaryBelow(c_arg_max_slot, c_now_slot)

\* the state entries of root r are stored
StateStored(r) == r \in DOMAIN db.fin /\ r \in DOMAIN db.committees

C14_Stored ==
    /\ \A e \in db.epoch_state_synched :
           \E s \in DOMAIN db.block_slot :
               /\ slot_to_epoch(s) = e
               /\ s \in endpoint.nonempty
               /\ StateStored(get_block_by_blockroot(endpoint, RootOf(s)).state_root)
    /\ pc \in {"fin", "committees", "stateroot2"}
           => tmp_state_root = db.block_root[blk_root].state_root
    /\ (pc = "mark" /\ tmp_state_root # NoRoot)
           => /\ tmp_state_root = db.block_root[blk_root].state_root
              /\ slot_to_epoch(slot) \in db.epoch_state_synched
              /\ StateStored(tmp_state_root)
C14_Step ==
    /\ \A e \in Epochs :
           (e \notin db.epoch_state_synched /\ e \in db'.epoch_state_synched)
               => /\ pc = "stateroot2" /\ pc' = "mark"
                  /\ e = slot_to_epoch(slot)
                  /\ slot \in endpoint.nonempty
                  /\ tmp_state_root = db.block_root[blk_root].state_root
                  /\ tmp_state_root' = tmp_state_root
                  /\ StateStored(tmp_state_root)
    /\ (pc \in {"stateroot1", "stateroot2"} /\ pc' = "failed")
           => /\ db' = db
              /\ slot \notin db.slot_synched
              /\ slot_to_epoch(slot) \notin db.epoch_state_synched

\* C14: whenever epoch_{e}_state_synched is set, the finality checkpoints and
\* the committees are stored under the state root r of the block of a
\* non-empty slot of epoch e; the marker is set only by the slot both of
\* whose state-root-by-slot answers, before and after the two fetches, were
\* r; a run that ends at one of the two checks leaves the store as it was,
\* with neither the epoch's nor the slot's marker set.
C14_EpochStateMarker == [](C14_Stored) /\ [][C14_Step]_vars
C14_Witness ==
    /\ pc = "mark"
    /\ tmp_state_root = StateRootOf(slot)
    /\ ~is_epoch_boundary_slot(slot)
    /\ slot_to_epoch(slot) \in db.epoch_state_synched
    /\ mode = "other"

\* C15: after any archiver runs, for every epoch boundary slot s that is
\* marked synched and has block_{s} stored, the block b of that root is
\* stored and state_{b.state_root}_finality_checkpoints and
\* state_{b.state_root}_committees are stored: what the evaluator reads
\* under blk_em1.state_root (lines 112, 132) is there.
C15_BoundaryStateStored ==
    \A s \in db.slot_synched :
        (is_epoch_boundary_slot(s) /\ s \in DOMAIN db.block_slot)
            => /\ db.block_slot[s] \in DOMAIN db.block_root
               /\ StateStored(db.block_root[db.block_slot[s]].state_root)
C15_Witness ==
    /\ pc = "done"
    /\ mode = "other"
    /\ \E s \in db.slot_synched :
           /\ is_epoch_boundary_slot(s)
           /\ s > 0
           /\ s \in DOMAIN db.block_slot
           /\ s + 1 \in DOMAIN db.block_slot
           /\ s + 1 \in db.slot_synched

\* position of the rule of quorum q in the quorum vector
RuleIndex(q) == CHOOSE i \in 1..Len(conf_rule_states) : conf_rule_states[i].quorum = q
\* the evaluator failed in the epoch loop (lines 94-164), not before it
ConfFailedInEpoch == cpc = "panic" /\ epoch >= 1
\* ... at a read of the store that found nothing, or at line 108
ConfFailedOnMissing ==
    /\ ConfFailedInEpoch
    /\ \/ ridx = 0
       \/ /\ ridx >= 1
          /\ conf_rule_states[ridx].tip_blkroot \notin DOMAIN db.chain

\* C16: the rules of an epoch run only with every precursor of lines 94-153
\* read, and a record is printed only with the chain of the rule's previous
\* tip read; a run that fails in an epoch has printed no record of a later
\* epoch and none of that epoch for the failing rule or a rule after it;
\* when it fails on a missing precursor, no rule has changed its tip or
\* printed a record in that epoch.
C16_MissingPrecursorFatal ==
    /\ cpc = "rules" => PrecursorsPresent
    /\ \A k \in 1..Len(ledger) :
           ledger[k].t > 0 =>
               \E j \in 1..(k - 1) :
                   /\ ledger[j].quorum = ledger[k].quorum
                   /\ \A l \in (j + 1)..(k - 1) : ledger[l].quorum # ledger[k].quorum
                   /\ ledger[j].tip \in DOMAIN db.chain
    /\ ConfFailedInEpoch =>
           /\ \A k \in 1..Len(ledger) : ledger[k].t <= slot_e
           /\ \A k \in 1..Len(ledger) :
                  ledger[k].t = slot_e => RuleIndex(ledger[k].quorum) < ridx
           /\ \A i \in 1..Len(conf_rule_states) :
                  LET last == ledger[MaxOf(RecordsOf(conf_rule_states[i].quorum))]
                  IN  /\ conf_rule_states[i].tip_blkroot = last.tip
                      /\ conf_rule_states[i].tip_slot = last.slot
    /\ ConfFailedOnMissing => \A k \in 1..Len(ledger) : ledger[k].t < slot_e
C16_Witness ==
    /\ ConfFailedOnMissing
    /\ ridx = 0
    /\ epoch = MaxEpoch
    /\ \E k \in 1..Len(ledger) : ledger[k].t = slot_em1 /\ ledger[k].t > 0
    /\ blkroot_em1 \in DOMAIN db.block_root
    /\ blkroot_e \in DOMAIN db.chain
    /\ blkroot_em1 \in DOMAIN db.chain
    /\ blk_em1.state_root \notin DOMAIN db.committees

C17_Read ==
    /\ cpc = "rules" => (blkroot_e \in DOMAIN db.chain /\ blkroot_em1 \in DOMAIN db.chain)
    /\ db.chain = EmptyFn => \A k \in 1..Len(ledger) : ledger[k].t = 0
C17_Step ==
    /\ db'.chain # db.chain => (~Running /\ UNCHANGED <<pc, slot>>)
    /\ (/\ cpc = "epoch"
        /\ epoch <= slot_to_epoch(c_max_slot)
        /\ Evaluated(epoch)
        /\ (blkroot_e \notin DOMAIN db.chain \/ blkroot_em1 \notin DOMAIN db.chain))
           => cpc' = "panic"

\* C17: no step of an archiver run changes the chain_* entries, so a store
\* only archiver runs have written has none; the evaluator reads
\* chain_{blkroot_e} and chain_{blkroot_em1} in every epoch it does not skip:
\* it reaches the rules only with both stored, fails where one is absent,
\* and on a store without chain_* entries prints nothing but t=0 records.
C17_NoChainFromArchiver == [](C17_Read) /\ [][C17_Step]_vars
C17_Witness ==
    /\ ConfFailedInEpoch
    /\ ridx = 0
    /\ db.chain = EmptyFn
    /\ pc = "done"
    /\ blkroot_em1 \in DOMAIN db.block_root

C18_Held ==
    /\ tokens \in {0, 1}
    /\ inflight \in {0, 1}
    /\ inflight = 1 => (AtRequest /\ tokens = 0)
    /\ tokens = 1 => AtRequest
C18_Step ==
    /\ inflight' > inflight
           => /\ inflight = 0
              /\ tokens = 1
              /\ tokens' = 0
    /\ (Running /\ pc' # pc /\ pc' \notin {"interrupted", "done"}
           /\ pc \in {"block", "stateroot1", "fin", "committees", "stateroot2"})
           => (inflight = 1 /\ inflight' = 0)
    /\ (Running /\ pc = "loop" /\ pc' \notin {"loop", "interrupted", "done"})
           => (inflight = 1 /\ inflight' = 0)

\* C18: in every archiver run a request is sent only with no request in
\* flight and with a limiter token acquired after the previous request,
\* which that request uses up; the run moves past a request only when its
\* answer (or failure) has come back: never two requests in flight, never
\* two requests on one token.
C18_RequestsSerialized == [](C18_Held) /\ [][C18_Step]_vars
C18_Witness ==
    /\ inflight = 1
    /\ pc = "committees"
    /\ slot > 0
    /\ mode = "resumed"

\* the loop of line 74 has gone through its range in the first run on the
\* store
FirstRunAtEnd == pc = "loop" /\ slot >= max_slot /\ mode = "first"

\* C19 as claimed: the loop's upper bound is the clamped and coerced
\* max_slot plus SLOTS_PER_EPOCH, and a run processes the slots from the
\* coerced min_slot up to it.
C19_UpperBoundPlusEpoch ==
    /\ Running => max_slot = ClampMax(arg_max_slot, now_slot) + SLOTS_PER_EPOCH
    /\ FirstRunAtEnd =>
           db.slot_synched
               = min_slot..(ClampMax(arg_max_slot, now_slot) + SLOTS_PER_EPOCH - 1)
\* C19 amended: the loop's (exclusive) upper bound is the clamped and coerced
\* max_slot plus one, and a run processes the slots from the coerced
\* min_slot up to and including the coerced max_slot.
C19_UpperBoundPlusOne ==
    /\ Running => max_slot = ClampMax(arg_max_slot, now_slot) + 1
    /\ FirstRunAtEnd =>
           db.slot_synched = min_slot..ClampMax(arg_max_slot, now_slot)
C19_Witness ==
    /\ FirstRunAtEnd
    /\ min_slot = SLOTS_PER_EPOCH
    /\ arg_max_slot = MaxSlot
    /\ db.slot_synched = SLOTS_PER_EPOCH..MaxSlot
    /\ DOMAIN db.block_slot # {}

C20_Skipped ==
    /\ \A k \in 1..Len(ledger) :
           ledger[k].t > 0 => Evaluated(slot_to_epoch(ledger[k].t))
    /\ cpc = "rules" => Evaluated(epoch)
    /\ ConfFailedInEpoch => Evaluated(epoch)
C20_Step ==
    (/\ cpc = "epoch"
     /\ epoch <= slot_to_epoch(c_max_slot)
     /\ ~Evaluated(epoch))
        => /\ cpc' = "epoch"
           /\ epoch' = epoch + 1
           /\ UNCHANGED <<conf_rule_states, ledger>>

\* C20: an epoch e of 1..slot_to_epoch(max_slot) for which block_{slot_e} or
\* block_{slot_em1} is not stored is passed over: the step leaves every
\* rule's tip and the printed records as they are and goes on to epoch e+1;
\* no record carries the t of such an epoch, the rules never run in it and
\* no failure occurs in it.
C20_EpochSkip == [](C20_Skipped) /\ [][C20_Step]_vars
C20_Witness ==
    /\ cpc = "done"
    /\ c_max_slot = MaxSlot
    /\ ~Evaluated(1)
    /\ Evaluated(MaxEpoch)
    /\ \E k \in 1..Len(ledger) : ledger[k].t = MaxSlot
====
